---- MODULE Spec2Model ----
(***************************************************************************)
(* helm-cel: macro expansion of rule expressions (pkg/validator/           *)
(* expression_processor.go) and rule evaluation with severity routing      *)
(* (pkg/validator/validator.go).  Go strings are TLA+ strings; the byte at *)
(* 0-based Go index k is SubSeq(s, k+1, k+1).                              *)
(***************************************************************************)
EXTENDS Integers, Sequences, FiniteSets, TLC

(***************************************************************************)
(* Go standard-library string functions used by the code.                  *)
(***************************************************************************)
CharAt(s, i) == SubSeq(s, i, i)

Digits == {"0", "1", "2", "3", "4", "5", "6", "7", "8", "9"}

Letters ==
    {"a", "b", "c", "d", "e", "f", "g", "h", "i", "j", "k", "l", "m",
     "n", "o", "p", "q", "r", "s", "t", "u", "v", "w", "x", "y", "z",
     "A", "B", "C", "D", "E", "F", "G", "H", "I", "J", "K", "L", "M",
     "N", "O", "P", "Q", "R", "S", "T", "U", "V", "W", "X", "Y", "Z"}

WhiteSpace == {" ", "\t", "\n", "\r", "\f"}

RECURSIVE IndexFrom(_, _, _)
IndexFrom(s, sub, i) ==
    IF i + Len(sub) - 1 > Len(s) THEN 0
    ELSE IF SubSeq(s, i, i + Len(sub) - 1) = sub THEN i
    ELSE IndexFrom(s, sub, i + 1)

\* strings.Index, 1-based; 0 when sub does not occur
Index(s, sub) == IndexFrom(s, sub, 1)

\* strings.Contains
Contains(s, sub) == Index(s, sub) # 0

\* strings.HasPrefix
HasPrefix(s, p) == Len(p) <= Len(s) /\ SubSeq(s, 1, Len(p)) = p

\* strings.Replace(s, old, new, 1)
Replace1(s, old, new) ==
    LET j == Index(s, old)
    IN  IF j = 0 THEN s
        ELSE SubSeq(s, 1, j - 1) \o new \o SubSeq(s, j + Len(old), Len(s))

\* strings.ReplaceAll(s, old, new), old non-empty
RECURSIVE ReplaceAll(_, _, _)
ReplaceAll(s, old, new) ==
    LET j == Index(s, old)
    IN  IF j = 0 THEN s
        ELSE SubSeq(s, 1, j - 1) \o new
                \o ReplaceAll(SubSeq(s, j + Len(old), Len(s)), old, new)

RECURSIVE TrimLeft(_)
TrimLeft(s) ==
    IF Len(s) > 0 /\ CharAt(s, 1) \in WhiteSpace THEN TrimLeft(Tail(s)) ELSE s

RECURSIVE TrimRight(_)
TrimRight(s) ==
    IF Len(s) > 0 /\ CharAt(s, Len(s)) \in WhiteSpace
    THEN TrimRight(SubSeq(s, 1, Len(s) - 1)) ELSE s

\* strings.TrimSpace
TrimSpace(s) == TrimRight(TrimLeft(s))

\* strings.TrimPrefix
TrimPrefix(s, p) == IF HasPrefix(s, p) THEN SubSeq(s, Len(p) + 1, Len(s)) ELSE s

\* strings.TrimSuffix
TrimSuffix(s, p) ==
    IF Len(p) <= Len(s) /\ SubSeq(s, Len(s) - Len(p) + 1, Len(s)) = p
    THEN SubSeq(s, 1, Len(s) - Len(p)) ELSE s

\* strings.Split(s, sep)[0]
SplitFirst(s, sep) ==
    LET j == Index(s, sep) IN IF j = 0 THEN s ELSE SubSeq(s, 1, j - 1)

\* strings.Split(s, sep), sep non-empty
RECURSIVE Split(_, _)
Split(s, sep) ==
    LET j == Index(s, sep)
    IN  IF j = 0 THEN <<s>>
        ELSE <<SubSeq(s, 1, j - 1)>> \o Split(SubSeq(s, j + Len(sep), Len(s)), sep)

\* strings.Join
RECURSIVE Join(_, _)
Join(parts, sep) ==
    IF Len(parts) = 0 THEN ""
    ELSE IF Len(parts) = 1 THEN parts[1]
    ELSE parts[1] \o sep \o Join(Tail(parts), sep)

\* strings.Trim(s, cutset), cutset given as a set of bytes
RECURSIVE Trim(_, _)
Trim(s, cutset) ==
    IF Len(s) > 0 /\ CharAt(s, 1) \in cutset THEN Trim(Tail(s), cutset)
    ELSE IF Len(s) > 0 /\ CharAt(s, Len(s)) \in cutset
    THEN Trim(SubSeq(s, 1, Len(s) - 1), cutset)
    ELSE s

\* fmt.Sprintf("%d", n) for n >= 0
RECURSIVE Itoa(_)
Itoa(n) ==
    IF n < 10 THEN CharAt("0123456789", n + 1)
    ELSE Itoa(n \div 10) \o CharAt("0123456789", (n % 10) + 1)

(***************************************************************************)
(* findExpressionReferences: the hand-written ${name} / ${name(...)}       *)
(* scanner.                                                                *)
(***************************************************************************)
\* the name loop (line 122): first index at or after i that is not a name byte
RECURSIVE scanName(_, _)
scanName(expr, i) ==
    IF i <= Len(expr) /\ CharAt(expr, i) \in ({"_"} \cup Letters \cup Digits)
    THEN scanName(expr, i + 1)
    ELSE i

\* the matching-parenthesis loop (lines 133-145); i is the index the loop
\* leaves, args the text "(...)" or "" when the list never closes
RECURSIVE scanArgs(_, _, _, _)
scanArgs(expr, argsStart, i, depth) ==
    IF i > Len(expr) THEN [i |-> i, args |-> ""]
    ELSE IF CharAt(expr, i) = "(" THEN scanArgs(expr, argsStart, i + 1, depth + 1)
    ELSE IF CharAt(expr, i) = ")" THEN
        IF depth - 1 = 0
        THEN [i |-> i + 1, args |-> SubSeq(expr, argsStart, i)]
        ELSE scanArgs(expr, argsStart, i + 1, depth - 1)
    ELSE scanArgs(expr, argsStart, i + 1, depth)

\* one attempt to read a reference whose "${" starts at index start
\* (lines 117-160): the match if well formed, and the index to go on from
refAt(expr, start) ==
    LET nameStart == start + 2
        nameEnd   == scanName(expr, nameStart)
        name      == SubSeq(expr, nameStart, nameEnd - 1)
        a == IF nameEnd <= Len(expr) /\ CharAt(expr, nameEnd) = "("
             THEN scanArgs(expr, nameEnd, nameEnd, 0)
             ELSE [i |-> nameEnd, args |-> ""]
    IN  IF a.i <= Len(expr) /\ CharAt(expr, a.i) = "}"
        THEN [ok |-> TRUE, next |-> a.i + 1,
              match |-> [fullMatch |-> SubSeq(expr, start, a.i),
                         name |-> name, args |-> a.args]]
        ELSE [ok |-> FALSE, next |-> a.i + 1,
              match |-> [fullMatch |-> "", name |-> name, args |-> ""]]

RECURSIVE findFrom(_, _)
findFrom(expr, i) ==
    IF i > Len(expr) THEN <<>>
    ELSE IF i < Len(expr) /\ CharAt(expr, i) = "$" /\ CharAt(expr, i + 1) = "{"
    THEN LET r == refAt(expr, i)
         IN  IF r.ok THEN <<r.match>> \o findFrom(expr, r.next)
             ELSE findFrom(expr, r.next)
    ELSE findFrom(expr, i + 1)

findExpressionReferences(expr) == findFrom(expr, 1)

(***************************************************************************)
(* parseArguments: split "(arg1, arg2)" on top-level commas.               *)
(***************************************************************************)
\* the loop of lines 188-238 from (0-based) index i-1 on; st holds the
\* locals args, current, parenDepth, bracketDepth, inSingleQuote, inDoubleQuote
RECURSIVE parseLoop(_, _, _)
parseLoop(argsStr, i, st) ==
    IF i > Len(argsStr) THEN st
    ELSE
      LET ch     == CharAt(argsStr, i)
          quoted == st.inSingleQuote \/ st.inDoubleQuote
          put    == [st EXCEPT !.current = @ \o ch]
      IN  CASE ch = "(" ->
                 parseLoop(argsStr, i + 1,
                     IF quoted THEN put ELSE [put EXCEPT !.parenDepth = @ + 1])
            [] ch = ")" ->
                 parseLoop(argsStr, i + 1,
                     IF quoted THEN put ELSE [put EXCEPT !.parenDepth = @ - 1])
            [] ch = "[" ->
                 parseLoop(argsStr, i + 1,
                     IF quoted THEN put ELSE [put EXCEPT !.bracketDepth = @ + 1])
            [] ch = "]" ->
                 parseLoop(argsStr, i + 1,
                     IF quoted THEN put ELSE [put EXCEPT !.bracketDepth = @ - 1])
            [] ch = "'" ->
                 parseLoop(argsStr, i + 1,
                     IF st.inDoubleQuote THEN put
                     ELSE [put EXCEPT !.inSingleQuote = ~@])
            [] ch = "\"" ->
                 parseLoop(argsStr, i + 1,
                     IF st.inSingleQuote THEN put
                     ELSE [put EXCEPT !.inDoubleQuote = ~@])
            [] ch = "," ->
                 parseLoop(argsStr, i + 1,
                     IF st.parenDepth = 0 /\ st.bracketDepth = 0 /\ ~quoted
                     THEN [st EXCEPT !.args = Append(@, TrimSpace(st.current)),
                                     !.current = ""]
                     ELSE put)
            [] ch = "\\" ->
                 IF i + 1 <= Len(argsStr)
                 THEN parseLoop(argsStr, i + 2,
                          [st EXCEPT !.current = @ \o ch \o CharAt(argsStr, i + 1)])
                 ELSE parseLoop(argsStr, i + 1, put)
            [] OTHER -> parseLoop(argsStr, i + 1, put)

\* parseArguments splitting on every comma, nested or not
parseArguments_NaiveSplit(argsWithParens) ==
    LET argsStr == TrimSpace(TrimSuffix(TrimPrefix(argsWithParens, "("), ")"))
        pieces  == Split(argsStr, ",")
    IN  IF argsStr = "" THEN <<>>
        ELSE [k \in 1..Len(pieces) |-> TrimSpace(pieces[k])]

parseArguments(argsWithParens) ==
    LET argsStr == TrimSpace(TrimSuffix(TrimPrefix(argsWithParens, "("), ")"))
        st == parseLoop(argsStr, 1,
                  [args |-> <<>>, current |-> "", parenDepth |-> 0,
                   bracketDepth |-> 0, inSingleQuote |-> FALSE,
                   inDoubleQuote |-> FALSE])
    IN  IF argsStr = "" THEN <<>>
        ELSE IF Len(st.current) > 0
             THEN Append(st.args, TrimSpace(st.current))
             ELSE st.args

(***************************************************************************)
(* replaceParameters: substitute $0, $1, ... by the argument texts.        *)
(***************************************************************************)
\* paramPattern `\$(\d+)` matches somewhere in s
paramPattern(s) ==
    \E i \in 1..(Len(s) - 1) : CharAt(s, i) = "$" /\ CharAt(s, i + 1) \in Digits

\* the loop of lines 264-267 from argument index i (0-based) on
RECURSIVE replaceLoop(_, _, _)
replaceLoop(result, args, i) ==
    IF i >= Len(args) THEN result
    ELSE replaceLoop(ReplaceAll(result, "$" \o Itoa(i), args[i + 1]), args, i + 1)

\* replaceParameters without the check of lines 258-261
replaceParameters_NoZeroCheck(expr, args) ==
    LET result == replaceLoop(expr, args, 0)
    IN  IF paramPattern(result)
        THEN [result |-> "",
              err |-> "not enough arguments provided for parameters"]
        ELSE [result |-> result, err |-> ""]

\* returns [result, err]; err = "" is Go's nil error
replaceParameters(expr, args) ==
    IF paramPattern(expr) /\ Len(args) = 0
    THEN [result |-> "",
          err |-> "expression requires parameters but none were provided"]
    ELSE LET result == replaceLoop(expr, args, 0)
         IN  IF paramPattern(result)
             THEN [result |-> "",
                   err |-> "not enough arguments provided for parameters"]
             ELSE [result |-> result, err |-> ""]

(***************************************************************************)
(* expandExpression                                                        *)
(***************************************************************************)
\* a Go nil map, as opposed to an empty one ("<" is not a name byte, so no
\* reference can name this key)
NilMap == [n \in {"<nil>"} |-> "<nil>"]

\* expandMatch substituting parameters for a reference without an argument
\* list as well
expandMatch_AlwaysReplace(match, namedExpr) ==
    LET r == replaceParameters(namedExpr, parseArguments(match.args))
    IN  IF r.err # ""
        THEN [result |-> "",
              err |-> "failed to replace parameters in " \o match.name
                          \o ": " \o r.err]
        ELSE r

\* the text that replaces one match (lines 64-80)
expandMatch(match, namedExpr) ==
    IF match.args # ""
    THEN LET r == replaceParameters(namedExpr, parseArguments(match.args))
         IN  IF r.err # ""
             THEN [result |-> "",
                   err |-> "failed to replace parameters in " \o match.name
                               \o ": " \o r.err]
             ELSE r
    ELSE [result |-> namedExpr, err |-> ""]

\* the loop over matches (lines 52-84) from match k on
RECURSIVE matchLoop(_, _, _, _)
matchLoop(result, matches, k, expressions) ==
    IF k > Len(matches) THEN [result |-> result, err |-> ""]
    ELSE LET match == matches[k]
         IN  IF match.name \notin DOMAIN expressions
             THEN [result |-> "",
                   err |-> "undefined reference in expression: " \o match.fullMatch]
             ELSE LET e == expandMatch(match, expressions[match.name])
                  IN  IF e.err # "" THEN e
                      ELSE matchLoop(
                               Replace1(result, match.fullMatch,
                                        "(" \o e.result \o ")"),
                               matches, k + 1, expressions)

\* the scanning loop without the check after it (lines 96-98): what is left
\* when the budget runs out is returned as the expansion
RECURSIVE passLoop_NoFinalCheck(_, _, _, _)
passLoop_NoFinalCheck(result, iteration, expr, expressions) ==
    IF Contains(result, "${") /\ iteration < Cardinality(DOMAIN expressions) + 1
    THEN LET matches == findExpressionReferences(result)
             m == matchLoop(result, matches, 1, expressions)
         IN  IF m.err # ""
             THEN [result |-> "", err |-> m.err, iteration |-> iteration + 1]
             ELSE IF Len(matches) = 0
             THEN [result |-> "",
                   err |-> "undefined reference in expression: " \o expr,
                   iteration |-> iteration + 1]
             ELSE IF m.result = result
             THEN [result |-> "",
                   err |-> "circular reference detected in expression: " \o expr,
                   iteration |-> iteration + 1]
             ELSE passLoop_NoFinalCheck(m.result, iteration + 1, expr, expressions)
    ELSE [result |-> result, err |-> "", iteration |-> iteration]

\* the scanning loop (lines 44-98) entered with the given result and iteration
RECURSIVE passLoop(_, _, _, _)
passLoop(result, iteration, expr, expressions) ==
    IF Contains(result, "${") /\ iteration < Cardinality(DOMAIN expressions) + 1
    THEN LET matches == findExpressionReferences(result)
             m == matchLoop(result, matches, 1, expressions)
         IN  IF m.err # ""
             THEN [result |-> "", err |-> m.err, iteration |-> iteration + 1]
             ELSE IF Len(matches) = 0
             THEN [result |-> "",
                   err |-> "undefined reference in expression: " \o expr,
                   iteration |-> iteration + 1]
             ELSE IF m.result = result
             THEN [result |-> "",
                   err |-> "circular reference detected in expression: " \o expr,
                   iteration |-> iteration + 1]
             ELSE passLoop(m.result, iteration + 1, expr, expressions)
    ELSE IF Contains(result, "${")
    THEN [result |-> "",
          err |-> "circular reference detected in expression: " \o expr,
          iteration |-> iteration]
    ELSE [result |-> result, err |-> "", iteration |-> iteration]

\* expandExpression making its first scanning pass unconditionally: a text
\* without any reference is then reported as an undefined reference
expandExpression_ScanFirst(expr, expressions) ==
    IF Len(findExpressionReferences(expr)) = 0
    THEN [result |-> "",
          err |-> "undefined reference in expression: " \o expr,
          iteration |-> 1]
    ELSE passLoop(expr, 0, expr, IF expressions = NilMap THEN <<>> ELSE expressions)

\* returns [result, err, iteration]: the returned text, the error ("" = nil)
\* and the number of scanning passes made
expandExpression(expr, expressions) ==
    passLoop(expr, 0, expr, IF expressions = NilMap THEN <<>> ELSE expressions)

(***************************************************************************)
(* Values: the document tree (map[string]any).  A map is a function from   *)
(* keys to tagged values; the document itself is such a function.          *)
(***************************************************************************)
NilValue == [kind |-> "nil"]
Num(n) == [kind |-> "num", v |-> n]
Str(s) == [kind |-> "str", v |-> s]
Bool(b) == [kind |-> "bool", v |-> b]
Map(m) == [kind |-> "map", m |-> m]
List(l) == [kind |-> "list", l |-> l]

\* current[part] on a Go map: the zero value (nil) for an absent key
Lookup(current, part) ==
    IF part \in DOMAIN current THEN current[part] ELSE NilValue

\* the loop over patterns in extractPath
RECURSIVE extractPathLoop(_, _)
extractPathLoop(errMsg, patterns) ==
    IF Len(patterns) = 0 THEN ""
    ELSE LET pattern == Head(patterns)
             idx == Index(errMsg, pattern)
         IN  IF idx # 0
             THEN SplitFirst(
                      Trim(SubSeq(errMsg, idx + Len(pattern), Len(errMsg)),
                           {"'", "\""}),
                      " ")
             ELSE extractPathLoop(errMsg, Tail(patterns))

extractPath(errMsg) ==
    extractPathLoop(errMsg, <<"no such key: ", "undefined field '", "missing key ">>)

\* the navigation loop of extractValueFromValues from pathParts[i] (1-based)
RECURSIVE walk(_, _, _, _)
walk(current, pathParts, i, path) ==
    IF i >= Len(pathParts)
    THEN [value |-> Lookup(current, pathParts[Len(pathParts)]), path |-> path]
    ELSE LET v == Lookup(current, pathParts[i])
         IN  IF v.kind = "map"
             THEN walk(v.m, pathParts, i + 1, path)
             ELSE [value |-> v, path |-> Join(SubSeq(pathParts, 1, i), ".")]

\* extractValueFromValues without the trimming of parentheses
extractValueFromValues_NoTrim(values, expr) ==
    LET parts == Split(expr, "values.")
    IN  IF Len(parts) < 2 THEN [value |-> NilValue, path |-> ""]
        ELSE LET path == SplitFirst(parts[2], " ")
             IN  walk(values, Split(path, "."), 1, path)

\* returns [value, path]
extractValueFromValues(values, expr) ==
    LET parts == Split(expr, "values.")
    IN  IF Len(parts) < 2 THEN [value |-> NilValue, path |-> ""]
        ELSE LET path == Trim(SplitFirst(parts[2], " "), {"(", ")"})
             IN  walk(values, Split(path, "."), 1, path)

(***************************************************************************)
(* The values loader: mergeValues and the loop of LoadAndMergeValues.      *)
(***************************************************************************)
\* mergeValues keeping only the top level of the overlay: a mapping of the
\* overlay replaces the mapping of the base
mergeValues_Shallow(base, overlay) ==
    [k \in DOMAIN base \cup DOMAIN overlay |->
        IF k \in DOMAIN overlay THEN overlay[k] ELSE base[k]]

\* base and overlay are mappings from keys to tagged values
RECURSIVE mergeValues(_, _)
mergeValues(base, overlay) ==
    [k \in DOMAIN base \cup DOMAIN overlay |->
        IF k \notin DOMAIN overlay THEN base[k]
        ELSE IF k \in DOMAIN base
                /\ base[k].kind = "map" /\ overlay[k].kind = "map"
             THEN Map(mergeValues(base[k].m, overlay[k].m))
             ELSE overlay[k]]

(***************************************************************************)
(* The CEL library (external): what env.Compile and program.Eval return    *)
(* for the rule expressions of this model, with "values" bound to the      *)
(* document.                                                               *)
(***************************************************************************)
\* a CEL expression inside one enclosing pair of parentheses means the same
celInner(e) ==
    IF Len(e) >= 2 /\ CharAt(e, 1) = "(" /\ CharAt(e, Len(e)) = ")"
    THEN SubSeq(e, 2, Len(e) - 1) ELSE e

\* issues.Err() of env.Compile(rule.Expr) as text; "" when it compiles
celCompile(e) ==
    IF e = "invalid syntax >>>"
    THEN "ERROR: <input>:1:9: Syntax error: mismatched input 'syntax' expecting <EOF>"
    ELSE ""

\* err of env.Program(ast): a checked expression always yields a program
celProgram(e) == ""

\* program.Eval: [err, out]; selecting an absent key is a runtime error
celEval(e, values) ==
    LET b == celInner(e)
    IN  CASE b = "values.port <= 65535" ->
               IF "port" \in DOMAIN values
               THEN [err |-> "", out |-> Bool(values["port"].v <= 65535)]
               ELSE [err |-> "no such key: port", out |-> NilValue]
          [] b = "values.replicas > 0" ->
               IF "replicas" \in DOMAIN values
               THEN [err |-> "", out |-> Bool(values["replicas"].v > 0)]
               ELSE [err |-> "no such key: replicas", out |-> NilValue]
          [] b = "values.port" ->
               IF "port" \in DOMAIN values
               THEN [err |-> "", out |-> values["port"]]
               ELSE [err |-> "no such key: port", out |-> NilValue]
          [] b = "values.port >= 1 && values.port <= 65535" ->
               IF "port" \in DOMAIN values
               THEN [err |-> "",
                     out |-> Bool(values["port"].v >= 1 /\ values["port"].v <= 65535)]
               ELSE [err |-> "no such key: port", out |-> NilValue]
          [] b \in {"has(values.service)&&has(values.service.port)",
                    "has(values.service) && has(values.service.port)"} ->
               \* service, where a document has it, is a mapping; && is false
               \* without evaluating its right side once the left side is
               [err |-> "",
                out |-> Bool(/\ "service" \in DOMAIN values
                             /\ values["service"].kind = "map"
                             /\ "port" \in DOMAIN values["service"].m)]
          [] OTHER -> [err |-> "no such overload", out |-> NilValue]

(***************************************************************************)
(* State.                                                                  *)
(*   rulesFile    the rule list as the rule loader read it                 *)
(*   rules        mergedRules.Rules, the in-memory list ValidateChart      *)
(*                passes to PrepareNamedExpressions and validateRules      *)
(*   expressions  mergedRules.Expressions, the macro table                 *)
(*   values       mergedValues, the document                               *)
(*   pc, i        position of ValidateChart and the index of the loop      *)
(*   result, err  the ValidationResult being built / returned, the error   *)
(*   celCalls     indices of the rules handed to env.Compile, in order     *)
(*   expr, expanded   argument and return value of a direct call of        *)
(*                expandExpression                                         *)
(*   valuesFiles, rulesFiles   the files named on the command line, each   *)
(*                with its path and its parsed content                     *)
(*   outputFormat the --output flag                                        *)
(*   stdout, stderr, exitCode   what the process printed and its exit      *)
(*                status (-1 while it runs)                                *)
(*   msg          return value of a direct call of ValidationResult.Error  *)
(*   extracted    return value of a direct call of extractPath or          *)
(*                extractValueFromValues                                   *)
(***************************************************************************)
VARIABLES rulesFile, rules, expressions, values, pc, i, result, err, celCalls,
          expr, expanded,
          valuesFiles, rulesFiles, outputFormat, stdout, stderr, exitCode, msg,
          extracted

\* the state of the command around a validation run
cmdVars == <<valuesFiles, rulesFiles, outputFormat, stdout, stderr, exitCode, msg,
            extracted>>

vars == <<rulesFile, rules, expressions, values, pc, i, result, err, celCalls,
          expr, expanded, cmdVars>>

\* no value and no path, as before a call of the two extractors
NotExtracted == [value |-> NilValue, path |-> ""]

\* the command state of a run that is looked at without its command
NoCommand ==
    /\ valuesFiles = <<>>
    /\ rulesFiles = <<>>
    /\ outputFormat = "text"
    /\ stdout = <<>>
    /\ stderr = ""
    /\ exitCode = -1
    /\ msg = ""
    /\ extracted = NotExtracted

WarningSeverity == "warning"

\* a models.Rule
Rule(e, desc, severity) == [Expr |-> e, Desc |-> desc, Severity |-> severity]

\* a ValidationResult pointer: nil, or the two lists
NilResult == [isNil |-> TRUE, Errors |-> <<>>, Warnings |-> <<>>]
EmptyResult == [isNil |-> FALSE, Errors |-> <<>>, Warnings |-> <<>>]

NotCalled == [result |-> "", err |-> "", iteration |-> 0]

(***************************************************************************)
(* Bounds and input universes.                                             *)
(***************************************************************************)
MaxRules == 2
MaxArgLen == 4

\* rule expressions of a validation run
RunExprs ==
    {"values.port <= 65535", "values.replicas > 0", "values.port",
     "invalid syntax >>>", "${validPort}", "${undefinedRef}"}

\* the severity of a rule is any string of the rules file: unset, the two
\* documented words, other spellings of them and an unknown word
Severities == {"", "error", WarningSeverity, "Warning", "WARNING", "info"}

RunExpressions == "validPort" :> "values.port <= 65535"

Documents ==
    {("port" :> Num(70000)) @@ ("replicas" :> Num(3)),
     "port" :> Num(8080)}

\* rule k of a file is described as "rule k"
RuleLists ==
    UNION {[1..n -> (RunExprs \X Severities)] : n \in 0..MaxRules}

MkRules(l) ==
    [k \in 1..Len(l) |->
        [Expr |-> l[k][1], Desc |-> "rule " \o Itoa(k), Severity |-> l[k][2]]]

Init ==
    /\ \E l \in RuleLists : rulesFile = MkRules(l)
    /\ rules = rulesFile
    /\ expressions = RunExpressions
    /\ values \in Documents
    /\ pc = "loaded"
    /\ i = 0
    /\ result = NilResult
    /\ err = ""
    /\ celCalls = <<>>
    /\ expr = ""
    /\ expanded = NotCalled
    /\ NoCommand

(***************************************************************************)
(* ValidateChart, after the two loaders returned.                          *)
(***************************************************************************)
\* lines 64-72: no rules gives an empty result at once
Start ==
    /\ pc = "loaded"
    /\ IF Len(rules) = 0
       THEN /\ pc' = "done"
            /\ result' = EmptyResult
       ELSE /\ pc' = "prepare"
            /\ result' = result
    /\ i' = 1
    /\ UNCHANGED <<rulesFile, rules, expressions, values, err, celCalls,
                   expr, expanded, cmdVars>>

\* PrepareNamedExpressions going on to the next rule when a rule fails to
\* expand, leaving that rule as written
PrepareRule_ContinueOnError ==
    /\ pc = "prepare"
    /\ LET e == expandExpression(rules[i].Expr, expressions)
       IN  rules' = IF e.err # "" THEN rules
                    ELSE [rules EXCEPT ![i].Expr = e.result]
    /\ IF i = Len(rules)
       THEN /\ pc' = "validate"
            /\ i' = 1
            /\ result' = EmptyResult
       ELSE /\ pc' = "prepare"
            /\ i' = i + 1
            /\ result' = result
    /\ UNCHANGED <<rulesFile, expressions, values, celCalls, expr, expanded, err,
                   cmdVars>>

\* PrepareNamedExpressions storing a fresh rule that carries the expansion
\* and the description only
PrepareRule_FreshRule ==
    /\ pc = "prepare"
    /\ LET e == expandExpression(rules[i].Expr, expressions)
       IN  IF e.err # ""
           THEN /\ err' = "failed to expand rule '" \o rules[i].Desc
                              \o "': " \o e.err
                /\ result' = NilResult
                /\ pc' = "done"
                /\ UNCHANGED <<rules, i>>
           ELSE /\ rules' = [rules EXCEPT ![i] = Rule(e.result, @.Desc, "")]
                /\ IF i = Len(rules)
                   THEN /\ pc' = "validate"
                        /\ i' = 1
                        /\ result' = EmptyResult
                   ELSE /\ pc' = "prepare"
                        /\ i' = i + 1
                        /\ result' = result
                /\ err' = err
    /\ UNCHANGED <<rulesFile, expressions, values, celCalls, expr, expanded,
                   cmdVars>>

\* PrepareNamedExpressions, one iteration of its loop (lines 23-29) and, after
\* the last rule, the call of validateRules (line 78)
PrepareRule ==
    /\ pc = "prepare"
    /\ LET e == expandExpression(rules[i].Expr, expressions)
       IN  IF e.err # ""
           THEN /\ err' = "failed to expand rule '" \o rules[i].Desc
                              \o "': " \o e.err
                /\ result' = NilResult
                /\ pc' = "done"
                /\ UNCHANGED <<rules, i>>
           ELSE /\ rules' = [rules EXCEPT ![i].Expr = e.result]
                /\ IF i = Len(rules)
                   THEN /\ pc' = "validate"
                        /\ i' = 1
                        /\ result' = EmptyResult
                   ELSE /\ pc' = "prepare"
                        /\ i' = i + 1
                        /\ result' = result
                /\ err' = err
    /\ UNCHANGED <<rulesFile, expressions, values, celCalls, expr, expanded,
                   cmdVars>>

Finding(description, expression, value, path) ==
    [Description |-> description, Expression |-> expression,
     Value |-> value, Path |-> path]

\* routing that ignores the declared severity
route_IgnoreSeverity(res, rule, validationError) ==
    [res EXCEPT !.Errors = Append(@, validationError)]

\* routing that puts the newest finding first
route_Prepend(res, rule, validationError) ==
    IF rule.Severity = WarningSeverity
    THEN [res EXCEPT !.Warnings = <<validationError>> \o @]
    ELSE [res EXCEPT !.Errors = <<validationError>> \o @]

\* routing that takes every spelling of the word warning as a warning
route_AnyCase(res, rule, validationError) ==
    IF rule.Severity \in {WarningSeverity, "Warning", "WARNING"}
    THEN [res EXCEPT !.Warnings = Append(@, validationError)]
    ELSE [res EXCEPT !.Errors = Append(@, validationError)]

\* where a data failure of the rule goes (lines 166-170 and 178-182)
route(res, rule, validationError) ==
    IF rule.Severity = WarningSeverity
    THEN [res EXCEPT !.Warnings = Append(@, validationError)]
    ELSE [res EXCEPT !.Errors = Append(@, validationError)]

\* the loop body with a compile error routed by the declared severity
validateRule_CompileBySeverity(res, rule, vals) ==
    LET issues  == celCompile(rule.Expr)
        progErr == celProgram(rule.Expr)
        ev      == celEval(rule.Expr, vals)
    IN  IF issues # ""
        THEN route(res, rule,
                 Finding("Invalid rule syntax in '" \o rule.Desc \o "': " \o issues,
                         rule.Expr, NilValue, ""))
        ELSE IF progErr # ""
        THEN [res EXCEPT !.Errors = Append(@,
                 Finding("Failed to process rule '" \o rule.Desc \o "': " \o progErr,
                         rule.Expr, NilValue, ""))]
        ELSE IF ev.err # ""
        THEN route(res, rule,
                   Finding(rule.Desc, rule.Expr, NilValue, extractPath(ev.err)))
        ELSE IF ev.out # Bool(TRUE)
        THEN LET x == extractValueFromValues(vals, rule.Expr)
             IN  route(res, rule, Finding(rule.Desc, rule.Expr, x.value, x.path))
        ELSE res

\* the body of the loop of validateRules for one rule (lines 131-183)
validateRule(res, rule, vals) ==
    LET issues  == celCompile(rule.Expr)
        progErr == celProgram(rule.Expr)
        ev      == celEval(rule.Expr, vals)
    IN  IF issues # ""
        THEN [res EXCEPT !.Errors = Append(@,
                 Finding("Invalid rule syntax in '" \o rule.Desc \o "': " \o issues,
                         rule.Expr, NilValue, ""))]
        ELSE IF progErr # ""
        THEN [res EXCEPT !.Errors = Append(@,
                 Finding("Failed to process rule '" \o rule.Desc \o "': " \o progErr,
                         rule.Expr, NilValue, ""))]
        ELSE IF ev.err # ""
        THEN route(res, rule,
                   Finding(rule.Desc, rule.Expr, NilValue, extractPath(ev.err)))
        ELSE IF ev.out # Bool(TRUE)
        THEN LET x == extractValueFromValues(vals, rule.Expr)
             IN  route(res, rule, Finding(rule.Desc, rule.Expr, x.value, x.path))
        ELSE res

\* validateRules evaluating and reporting the rules as they were written
ValidateRule_AsWritten ==
    /\ pc = "validate"
    /\ celCalls' = Append(celCalls, i)
    /\ result' = validateRule(result, rulesFile[i], values)
    /\ IF i = Len(rules)
       THEN pc' = "done" /\ i' = i
       ELSE pc' = "validate" /\ i' = i + 1
    /\ UNCHANGED <<rulesFile, rules, expressions, values, err, expr, expanded,
                   cmdVars>>

\* validateRules, one iteration of its loop; the result is returned after the
\* last rule
ValidateRule ==
    /\ pc = "validate"
    /\ celCalls' = Append(celCalls, i)
    /\ result' = validateRule(result, rules[i], values)
    /\ IF i = Len(rules)
       THEN pc' = "done" /\ i' = i
       ELSE pc' = "validate" /\ i' = i + 1
    /\ UNCHANGED <<rulesFile, rules, expressions, values, err, expr, expanded,
                   cmdVars>>

Next == Start \/ PrepareRule \/ ValidateRule

Spec == Init /\ [][Next]_vars

HasErrors(res) == Len(res.Errors) > 0

(***************************************************************************)
(* Rendering of a ValidationResult as text.  The three symbols of the      *)
(* source are outside ASCII and are written here by a letter each.         *)
(***************************************************************************)
ErrorSymbol == "X"
WarningSymbol == "W"
SuccessSymbol == "V"

\* every key of the documents of this model, in the byte order fmt sorts by
KeyOrder == <<"port", "replicas", "service", "type">>

SortedKeys(m) == SelectSeq(KeyOrder, LAMBDA k : k \in DOMAIN m)

\* fmt's %v of a value of the document
RECURSIVE Format(_)
Format(v) ==
    CASE v.kind = "nil" -> "<nil>"
      [] v.kind = "num" -> Itoa(v.v)
      [] v.kind = "str" -> v.v
      [] v.kind = "bool" -> IF v.v THEN "true" ELSE "false"
      [] v.kind = "list" ->
           "[" \o Join([j \in 1..Len(v.l) |-> Format(v.l[j])], " ") \o "]"
      [] v.kind = "map" ->
           LET keys == SortedKeys(v.m)
           IN  "map[" \o Join([j \in 1..Len(keys) |->
                                  keys[j] \o ":" \o Format(v.m[keys[j]])], " ")
                      \o "]"

\* format printing the Path line also for an empty path
format_AlwaysPath(e, symbol) ==
    symbol \o " " \o e.Description \o "\n"
      \o "   Rule: " \o e.Expression \o "\n"
      \o "   Path: " \o e.Path \o "\n"
      \o (IF e.Value # NilValue THEN "   Current value: " \o Format(e.Value)
          ELSE "   Current value: <nil>")

\* ValidationError.format
format(e, symbol) ==
    symbol \o " " \o e.Description \o "\n"
      \o "   Rule: " \o e.Expression \o "\n"
      \o (IF e.Path # "" THEN "   Path: " \o e.Path \o "\n" ELSE "")
      \o (IF e.Value # NilValue THEN "   Current value: " \o Format(e.Value)
          ELSE "   Current value: <nil>")

\* one of the two loops of ValidationResult.Error, from finding j on
RECURSIVE writeFindings(_, _, _)
writeFindings(list, symbol, j) ==
    IF j > Len(list) THEN ""
    ELSE format(list[j], symbol)
           \o (IF j < Len(list) THEN "\n\n" ELSE "")
           \o writeFindings(list, symbol, j + 1)

\* ValidationResult.Error
Error(vr) ==
    (IF Len(vr.Errors) > 0
     THEN "Found " \o Itoa(Len(vr.Errors)) \o " error(s):\n\n"
            \o writeFindings(vr.Errors, ErrorSymbol, 1)
     ELSE "")
    \o
    (IF Len(vr.Warnings) > 0
     THEN (IF Len(vr.Errors) > 0 THEN "\n\n" ELSE "")
            \o "Found " \o Itoa(Len(vr.Warnings)) \o " warning(s):\n\n"
            \o writeFindings(vr.Warnings, WarningSymbol, 1)
     ELSE "")

(***************************************************************************)
(* The validate command: main, runValidator and ValidateChart from the     *)
(* files named on the command line to the exit status.  A file is given    *)
(* by its absolute path and what yaml.Unmarshal reads from it.             *)
(***************************************************************************)
MaxFiles == 2

ValuesFile(path, content) == [path |-> path, values |-> content]

RulesFile(path, ruleList, table) ==
    [path |-> path, Rules |-> ruleList, Expressions |-> table]

ChartValuesFiles ==
    {ValuesFile("/chart/values.yaml", "port" :> Num(70000)),
     ValuesFile("/chart/service.yaml",
                "service" :> Map("type" :> Str("ClusterIP"))),
     ValuesFile("/chart/prod.yaml",
                ("service" :> Map("port" :> Num(8080))) @@ ("port" :> Num(8080)))}

inRangeBody == "$0 >= $1 && $0 <= $2"

ChartRulesFiles ==
    {RulesFile("/chart/values.cel.yaml",
               <<Rule("${inRange(values.port,1,65535)}", "port is in range", "")>>,
               <<>>),
     RulesFile("/chart/macros.cel.yaml",
               <<Rule("values.port <= 65535", "port is valid", WarningSeverity)>>,
               "inRange" :> inRangeBody),
     RulesFile("/chart/service.cel.yaml",
               <<Rule("has(values.service)&&has(values.service.port)",
                      "service port is required", "")>>,
               "inRange" :> inRangeBody),
     RulesFile("/chart/extra.cel.yaml",
               <<Rule("has(values.service) && has(values.service.port)",
                      "service port is required", "")>>,
               ("validPort" :> "values.port <= 65535")
                  @@ ("inRange" :> "values.replicas > 0"))}

OutputFormats == {"text", "json", "yaml"}

\* the sequences of at most n elements of S
SeqsUpTo(S, n) == UNION {[1..k -> S] : k \in 0..n}

InitChart ==
    /\ valuesFiles \in SeqsUpTo(ChartValuesFiles, MaxFiles)
    /\ rulesFiles \in SeqsUpTo(ChartRulesFiles, MaxFiles)
    /\ outputFormat \in OutputFormats
    /\ pc = "values"
    /\ i = 1
    /\ values = <<>>
    /\ rules = <<>>
    /\ expressions = <<>>
    /\ rulesFile = <<>>
    /\ result = NilResult
    /\ err = ""
    /\ celCalls = <<>>
    /\ expr = ""
    /\ expanded = NotCalled
    /\ stdout = <<>>
    /\ stderr = ""
    /\ exitCode = -1
    /\ msg = ""
    /\ extracted = NotExtracted

\* LoadAndMergeValues, one iteration of its loop (lines 20-26); after the
\* last file ValidateChart goes on to the rule files
LoadAndMergeValues ==
    /\ pc = "values"
    /\ values' = IF i <= Len(valuesFiles)
                 THEN mergeValues(values, valuesFiles[i].values)
                 ELSE values
    /\ IF i >= Len(valuesFiles)
       THEN pc' = "rules" /\ i' = 1
       ELSE pc' = "values" /\ i' = i + 1
    /\ UNCHANGED <<rulesFile, rules, expressions, result, err, celCalls,
                   expr, expanded, cmdVars>>

\* the macro names of a file that the merged table already holds
Duplicates(file, table) == DOMAIN file.Expressions \cap DOMAIN table

\* LoadAndMergeRules without the duplicate check: the later file wins
LoadAndMergeRules_LastWins ==
    /\ pc = "rules"
    /\ IF i > Len(rulesFiles)
       THEN UNCHANGED <<rules, expressions>>
       ELSE /\ rules' = rules \o rulesFiles[i].Rules
            /\ expressions' = rulesFiles[i].Expressions @@ expressions
    /\ IF i >= Len(rulesFiles)
       THEN pc' = "loaded" /\ i' = 0 /\ rulesFile' = rules'
       ELSE pc' = "rules" /\ i' = i + 1 /\ rulesFile' = rulesFile
    /\ UNCHANGED <<values, result, err, celCalls, expr, expanded, cmdVars>>

\* LoadAndMergeRules keeping a macro table per file: the table of the file
\* read last replaces the one before
LoadAndMergeRules_OwnTable ==
    /\ pc = "rules"
    /\ IF i > Len(rulesFiles)
       THEN UNCHANGED <<rules, expressions>>
       ELSE /\ rules' = rules \o rulesFiles[i].Rules
            /\ expressions' = rulesFiles[i].Expressions
    /\ IF i >= Len(rulesFiles)
       THEN pc' = "loaded" /\ i' = 0 /\ rulesFile' = rules'
       ELSE pc' = "rules" /\ i' = i + 1 /\ rulesFile' = rulesFile
    /\ UNCHANGED <<values, result, err, celCalls, expr, expanded, cmdVars>>

\* LoadAndMergeRules, one iteration of its loop (lines 24-44).  The range
\* over the file's table is in no fixed order: any of its duplicates may be
\* the one that is met and named.  The failed call returns a nil RuleSet.
LoadAndMergeRules ==
    /\ pc = "rules"
    /\ IF i > Len(rulesFiles)
       THEN /\ pc' = "loaded" /\ i' = 0 /\ rulesFile' = rules
            /\ UNCHANGED <<rules, expressions, result, err>>
       ELSE LET file == rulesFiles[i]
            IN  IF Duplicates(file, expressions) # {}
                THEN /\ \E k \in Duplicates(file, expressions) :
                           err' = "failed to load rules: duplicate named expression '"
                                     \o k \o "' found in " \o file.path
                                     \o " (already defined as '"
                                     \o expressions[k] \o "')"
                     /\ rules' = <<>>
                     /\ expressions' = NilMap
                     /\ result' = NilResult
                     /\ pc' = "done"
                     /\ UNCHANGED <<i, rulesFile>>
                ELSE /\ rules' = rules \o file.Rules
                     /\ expressions' = file.Expressions @@ expressions
                     /\ IF i = Len(rulesFiles)
                        THEN pc' = "loaded" /\ i' = 0 /\ rulesFile' = rules'
                        ELSE pc' = "rules" /\ i' = i + 1 /\ rulesFile' = rulesFile
                     /\ UNCHANGED <<result, err>>
    /\ UNCHANGED <<values, celCalls, expr, expanded, cmdVars>>

\* the ValidationOutput of runValidator (lines 132-136)
ValidationOutput(res) ==
    [HasErrors |-> HasErrors(res), HasWarnings |-> Len(res.Warnings) > 0,
     Result |-> res]

Line(s) == [format |-> "text", line |-> s, output |-> ValidationOutput(EmptyResult)]
Document(fmt, output) == [format |-> fmt, line |-> "", output |-> output]

\* runValidator after ValidateChart returned (lines 128-161), and main
\* printing the returned error and exiting with status 1 (lines 108-111)
runValidator ==
    /\ pc = "done"
    /\ pc' = "exit"
    /\ IF err # ""
       THEN stdout' = stdout /\ stderr' = err /\ exitCode' = 1
       ELSE IF outputFormat \in {"json", "yaml"}
       THEN /\ stdout' = Append(stdout, Document(outputFormat, ValidationOutput(result)))
            /\ stderr' = stderr /\ exitCode' = 0
       ELSE IF HasErrors(result)
       THEN stdout' = stdout /\ stderr' = Error(result) /\ exitCode' = 1
       ELSE IF Len(result.Warnings) > 0
       THEN /\ stdout' = stdout \o
                   <<Line(Error(result)),
                     Line("-------------------------------------------------"),
                     Line(WarningSymbol \o SuccessSymbol
                            \o " Values validation successful with warnings!")>>
            /\ stderr' = stderr /\ exitCode' = 0
       ELSE /\ stdout' = Append(stdout,
                   Line(SuccessSymbol \o " Values validation successful!"))
            /\ stderr' = stderr /\ exitCode' = 0
    /\ UNCHANGED <<rulesFile, rules, expressions, values, i, result, err,
                   celCalls, expr, expanded, valuesFiles, rulesFiles,
                   outputFormat, msg, extracted>>

NextChart ==
    \/ LoadAndMergeValues
    \/ LoadAndMergeRules
    \/ Start
    \/ PrepareRule
    \/ ValidateRule
    \/ runValidator

SpecChart == InitChart /\ [][NextChart]_vars

(***************************************************************************)
(* Direct calls of LoadAndMergeValues: a list of values files.             *)
(***************************************************************************)
MergeDocuments ==
    {<<>>,
     "port" :> Num(70000),
     ("port" :> Num(8080)) @@ ("service" :> Map("type" :> Str("ClusterIP"))),
     "service" :> Map("port" :> Num(8080)),
     "service" :> Str("none"),
     "service" :> Map("type" :> Map("port" :> Num(1))),
     "service" :> Map("type" :> Map("replicas" :> Num(2))),
     "port" :> List(<<Num(1), Num(2)>>),
     "port" :> List(<<Num(3)>>),
     "service" :> NilValue}

MergeFiles == {ValuesFile("/chart/values.yaml", d) : d \in MergeDocuments}

InitValues ==
    /\ valuesFiles \in SeqsUpTo(MergeFiles, MaxFiles)
    /\ pc = "values"
    /\ i = 1
    /\ values = <<>>
    /\ rulesFiles = <<>>
    /\ outputFormat = "text"
    /\ rules = <<>>
    /\ expressions = <<>>
    /\ rulesFile = <<>>
    /\ result = NilResult
    /\ err = ""
    /\ celCalls = <<>>
    /\ expr = ""
    /\ expanded = NotCalled
    /\ stdout = <<>>
    /\ stderr = ""
    /\ exitCode = -1
    /\ msg = ""
    /\ extracted = NotExtracted

NextValues == LoadAndMergeValues

SpecValues == InitValues /\ [][NextValues]_vars

(***************************************************************************)
(* Direct calls of ValidationResult.Error, as the unit tests make them.    *)
(***************************************************************************)
MaxFindings == 2

RenderFindings ==
    {Finding("port must be valid", "values.service.port <= 65535",
             Num(70000), "service.port"),
     Finding("replicas must be positive", "values.replicas > 0", Num(0), ""),
     Finding("service is required", "has(values.service)", NilValue, "service"),
     Finding("Invalid rule syntax in 'rule 1': " \o celCompile("invalid syntax >>>"),
             "invalid syntax >>>", NilValue, ""),
     Finding("service port is required",
             "has(values.service) && has(values.service.port)",
             Map(("type" :> Str("ClusterIP")) @@ ("port" :> NilValue)), "service")}

InitRender ==
    /\ \E errors \in SeqsUpTo(RenderFindings, MaxFindings) :
       \E warnings \in SeqsUpTo(RenderFindings, MaxFindings) :
          result = [isNil |-> FALSE, Errors |-> errors, Warnings |-> warnings]
    /\ pc = "call"
    /\ msg = ""
    /\ extracted = NotExtracted
    /\ rulesFile = <<>>
    /\ rules = <<>>
    /\ expressions = <<>>
    /\ values = <<>>
    /\ i = 0
    /\ err = ""
    /\ celCalls = <<>>
    /\ expr = ""
    /\ expanded = NotCalled
    /\ valuesFiles = <<>>
    /\ rulesFiles = <<>>
    /\ outputFormat = "text"
    /\ stdout = <<>>
    /\ stderr = ""
    /\ exitCode = -1

ErrorCall ==
    /\ pc = "call"
    /\ msg' = Error(result)
    /\ pc' = "return"
    /\ UNCHANGED <<rulesFile, rules, expressions, values, i, result, err,
                   celCalls, expr, expanded, valuesFiles, rulesFiles,
                   outputFormat, stdout, stderr, exitCode, extracted>>

NextRender == ErrorCall

SpecRender == InitRender /\ [][NextRender]_vars

(***************************************************************************)
(* Direct calls of extractPath, as the unit tests make them: one error     *)
(* message, held by err.                                                   *)
(***************************************************************************)
\* the three patterns of extractPath, in its order
PathPatterns == <<"no such key: ", "undefined field '", "missing key ">>

\* what stands before the pattern, other patterns included
MessageHeads ==
    {"", "evaluation error: ", "missing key a ", "undefined field 'b' "}

\* the pattern of the message, or text that is none of them
MessageMarks ==
    {PathPatterns[k] : k \in 1..3} \cup {"some random error "}

MessageQuotes == {"", "'", "\""}

MessageWords == {"", "replicas", "service.port"}

MessageTails == {"", " in map", "'", "' in map", "\" in map"}

ErrorMessages ==
    {h \o m \o q \o w \o t :
        h \in MessageHeads, m \in MessageMarks, q \in MessageQuotes,
        w \in MessageWords, t \in MessageTails}

InitPath ==
    /\ err \in ErrorMessages
    /\ pc = "call"
    /\ extracted = NotExtracted
    /\ rulesFile = <<>>
    /\ rules = <<>>
    /\ expressions = <<>>
    /\ values = <<>>
    /\ i = 0
    /\ result = NilResult
    /\ celCalls = <<>>
    /\ expr = ""
    /\ expanded = NotCalled
    /\ valuesFiles = <<>>
    /\ rulesFiles = <<>>
    /\ outputFormat = "text"
    /\ stdout = <<>>
    /\ stderr = ""
    /\ exitCode = -1
    /\ msg = ""

extractPathCall ==
    /\ pc = "call"
    /\ extracted' = [value |-> NilValue, path |-> extractPath(err)]
    /\ pc' = "return"
    /\ UNCHANGED <<rulesFile, rules, expressions, values, i, result, err,
                   celCalls, expr, expanded, valuesFiles, rulesFiles,
                   outputFormat, stdout, stderr, exitCode, msg>>

NextPath == extractPathCall

SpecPath == InitPath /\ [][NextPath]_vars

(***************************************************************************)
(* Direct calls of extractValueFromValues, as the unit tests make them:    *)
(* one document and one expression.                                        *)
(***************************************************************************)
\* the document of the unit test
TestDocument ==
    ("service" :> Map(("port" :> Num(8080)) @@ ("type" :> Str("ClusterIP"))
                      @@ ("nodePort" :> Num(30080))
                      @@ ("nested" :> Map("field" :> Str("value")))))
    @@ ("replicas" :> Num(3))
    @@ ("resources" :> Map("limits" :> Map(("cpu" :> Str("1"))
                                           @@ ("memory" :> Str("1Gi")))))

ExtractDocuments ==
    {TestDocument,
     <<>>,
     "service" :> Str("none"),
     "service" :> Map("port" :> Num(70000)),
     "service" :> Map("type" :> Str("ClusterIP")),
     "service" :> Map("nested" :> List(<<Num(1)>>)),
     ("service" :> NilValue) @@ ("replicas" :> Num(0))}

\* the expressions of the unit test, and expressions that differ from them
\* in spacing, parentheses and the number of "values."
ExtractExprs ==
    {"values.replicas >= 1",
     "values.service.port <= 65535",
     "values.resources.limits.cpu == '1'",
     "replicas >= 1",
     "values.service.port >= 1 && values.service.port <= 65535",
     "values.service.nested.field == 'value'",
     "values.nonexistent.field == true",
     "has(values.service) && has(values.service.port)",
     "has(values.service)&&has(values.service.port)",
     "(values.replicas) > 0",
     "((values.service.port)) > 0",
     "values.replicas>0||values.service.port>0",
     "values.service.port.number > 0",
     "values.service.nested.field.size > 0",
     "size(values.service.nested) > 0",
     "values. > 0",
     "values",
     "1 < values.replicas",
     ""}

InitExtract ==
    /\ values \in ExtractDocuments
    /\ expr \in ExtractExprs
    /\ pc = "call"
    /\ extracted = NotExtracted
    /\ rulesFile = <<>>
    /\ rules = <<>>
    /\ expressions = <<>>
    /\ i = 0
    /\ result = NilResult
    /\ err = ""
    /\ celCalls = <<>>
    /\ expanded = NotCalled
    /\ valuesFiles = <<>>
    /\ rulesFiles = <<>>
    /\ outputFormat = "text"
    /\ stdout = <<>>
    /\ stderr = ""
    /\ exitCode = -1
    /\ msg = ""

extractValueFromValuesCall ==
    /\ pc = "call"
    /\ extracted' = extractValueFromValues(values, expr)
    /\ pc' = "return"
    /\ UNCHANGED <<rulesFile, rules, expressions, values, i, result, err,
                   celCalls, expr, expanded, valuesFiles, rulesFiles,
                   outputFormat, stdout, stderr, exitCode, msg>>

NextExtract == extractValueFromValuesCall

SpecExtract == InitExtract /\ [][NextExtract]_vars

(***************************************************************************)
(* Direct calls of expandExpression, as the unit tests make them: one      *)
(* expression against one macro table.                                     *)
(***************************************************************************)
MacroNames == {"a", "b", "f"}

Bodies ==
    {"x", "${a}", "${b}", "${u}", "$0 > 0", "$0 < $1", "${f($0)}"}

Tables ==
    {NilMap} \cup UNION {[S -> Bodies] : S \in SUBSET MacroNames}

Exprs ==
    {"", "x > 0", "${a}", "${b}", "${f}", "${u}", "${a} && ${b}",
     "${a} && ${a}", "${a} ${u}", "${f()}", "${f( )}", "${f(x)}", "${f(x, y)}",
     "${f(x)} && ${f(y)}", "${f(${a})}", "${f(${u})}", "${f(${f(x)})}",
     "${f(${f(${f(x)})})}", "${f(${f(${u})})}", "${b(${a})}", "${b(${u})}",
     "${f()} ${u}", "${a", "${f(x}", "${f(size(x))}", "${f($0)}",
     "${f(x, '$5')}", "${f(x)} && ${a}", "${f($1, y)}", "${f(y, $0)}"}

ArgAlphabet == {"a", "(", ")", ",", " ", "$", "{", "}", "0"}

RECURSIVE Texts(_)
Texts(n) ==
    IF n = 0 THEN {""}
    ELSE LET shorter == Texts(n - 1)
         IN  shorter \cup {t \o c : t \in shorter, c \in ArgAlphabet}

\* ${f(a)} for every argument text a of at most MaxArgLen bytes
ArgExprs == {"${f(" \o a \o ")}" : a \in Texts(MaxArgLen)}

ArgTables == {"f" :> "$0 > 0", ("f" :> "$0 > 0") @@ ("a" :> "x")}

\* already expanded text: every text of at most MaxArgLen bytes without "${"
PlainExprs == {t \in Texts(MaxArgLen) : ~Contains(t, "${")}

\* a nil table, a cyclic one and one whose macro references an undefined name
PlainTables == {NilMap, "a" :> "${a}", "a" :> "${u}"}

\* a quoted string of at most two bytes out of parentheses and a letter
QuotedTexts ==
    {q \o t \o q : q \in {"'", "\""}, t \in {"", "a", "(", ")", "()", ")(",
                                              "((", "))", "(a", "a)"}}

\* ${f(s)} for every such string s
QuotedExprs == {"${f(" \o a \o ")}" : a \in QuotedTexts}

\* the argument texts of a call with many arguments
WideArgs == <<"a", "b", "c", "d", "e", "g", "h", "i", "j", "k", "l", "m">>

\* ${f(a, b, ...)} with the first n of them
WideCall(n) == "${f(" \o Join(SubSeq(WideArgs, 1, n), ", ") \o ")}"

WideExprs == {WideCall(n) : n \in {2, 10, 11, 12}}

\* bodies whose placeholders have one and two digits
WideTables ==
    {"f" :> b : b \in {"$10", "$1 < $10", "$10 > $0", "$11 > $1", "$9 > 0"}}

InitExpand ==
    /\ \/ expr \in Exprs /\ expressions \in Tables
       \/ expr \in ArgExprs /\ expressions \in ArgTables
       \/ expr \in PlainExprs /\ expressions \in PlainTables
       \/ expr \in QuotedExprs /\ expressions \in ArgTables
       \/ expr \in WideExprs /\ expressions \in WideTables
    /\ expanded = NotCalled
    /\ pc = "call"
    /\ rulesFile = <<>>
    /\ rules = <<>>
    /\ values = <<>>
    /\ i = 0
    /\ result = NilResult
    /\ err = ""
    /\ celCalls = <<>>
    /\ NoCommand

ExpandCall ==
    /\ pc = "call"
    /\ expanded' = expandExpression(expr, expressions)
    /\ pc' = "return"
    /\ UNCHANGED <<rulesFile, rules, expressions, values, i, result, err,
                   celCalls, expr, cmdVars>>

NextExpand == ExpandCall

SpecExpand == InitExpand /\ [][NextExpand]_vars

(***************************************************************************)
(* The macro reference graph of a call: what the claims mean by a          *)
(* referenced name, an acyclic table and enough arguments.                 *)
(***************************************************************************)
\* the macro table of the call, a nil map read as the empty one
Macros == IF expressions = NilMap THEN <<>> ELSE expressions

\* the positions of text where "${" starts
RefStarts(text) ==
    {j \in 1..(Len(text) - 1) : SubSeq(text, j, j + 1) = "${"}

\* every well-formed reference of text, those inside argument lists included
DeepRefs(text) ==
    {refAt(text, j).match : j \in {k \in RefStarts(text) : refAt(text, k).ok}}

\* every "${" of text opens a well-formed reference
WellFormed(text) == \A j \in RefStarts(text) : refAt(text, j).ok

RefNames(text) == {r.name : r \in DeepRefs(text)}

RECURSIVE Closure(_, _)
Closure(names, n) ==
    IF n = 0 THEN names
    ELSE Closure(names \cup UNION {RefNames(Macros[m]) :
                                      m \in names \cap DOMAIN Macros}, n - 1)

\* the names the expression references directly or through macro bodies
ReachableNames == Closure(RefNames(expr), Cardinality(DOMAIN Macros))

ReachesItself(m) ==
    m \in Closure(RefNames(Macros[m]), Cardinality(DOMAIN Macros))

\* the expression reaches a macro that references itself
Cyclic == \E m \in ReachableNames \cap DOMAIN Macros : ReachesItself(m)

AllDefined == ReachableNames \subseteq DOMAIN Macros

ReachableTexts == {expr} \cup {Macros[m] : m \in ReachableNames \cap DOMAIN Macros}

AllWellFormed == \A t \in ReachableTexts : WellFormed(t)

\* the value of the maximal run of digits of s that starts at index j
RECURSIVE DigitRun(_, _, _)
DigitRun(s, j, acc) ==
    IF j <= Len(s) /\ CharAt(s, j) \in Digits
    THEN DigitRun(s, j + 1,
                  10 * acc + (CHOOSE d \in 0..9 : Itoa(d) = CharAt(s, j)))
    ELSE acc

\* the indices k of the placeholders $k of body, read as `\$(\d+)` reads them
Placeholders(body) ==
    {DigitRun(body, j + 1, 0) :
        j \in {k \in 1..(Len(body) - 1) :
                  CharAt(body, k) = "$" /\ CharAt(body, k + 1) \in Digits}}

\* the number of arguments the placeholders of body ask for
Needed(body) ==
    LET used == Placeholders(body)
    IN  IF used = {} THEN 0
        ELSE 1 + CHOOSE d \in used : \A e \in used : e <= d

\* every reference to a defined macro supplies the arguments its body asks for
EnoughArgs ==
    \A t \in ReachableTexts : \A r \in DeepRefs(t) :
        r.name \in DOMAIN Macros =>
            Len(parseArguments(r.args)) >= Needed(Macros[r.name])

IsCircularError(e) == HasPrefix(e, "circular reference detected in expression: ")
IsUndefinedError(e) == HasPrefix(e, "undefined reference in expression: ")
IsArityError(e) == HasPrefix(e, "failed to replace parameters in ")

\* C1: a rule expression over an acyclic, fully defined table, with enough
\* arguments at every reference, expands without error, within |macros| + 1 passes, to a text without "${"
C1_AcyclicExpansionSucceeds ==
    (pc = "return" /\ ~paramPattern(expr) /\ AllWellFormed /\ AllDefined /\ ~Cyclic /\ EnoughArgs) =>
        /\ expanded.err = ""
        /\ ~Contains(expanded.result, "${")
        /\ expanded.iteration <= Cardinality(DOMAIN Macros) + 1

ExactArgs ==
    /\ ~paramPattern(expr)
    /\ \A t \in ReachableTexts : \A r \in DeepRefs(t) :
          r.name \in DOMAIN Macros =>
              Len(parseArguments(r.args)) = Needed(Macros[r.name])

UndefinedInvolved ==
    \E t \in ReachableTexts : \E r \in DeepRefs(t) : r.name \notin DOMAIN Macros

\* e is UndefinedReference quoting one whole well-formed reference whose name
\* is not a key of the table
QuotesUndefinedReference(e) ==
    /\ IsUndefinedError(e)
    /\ LET t == SubSeq(e, Len("undefined reference in expression: ") + 1, Len(e))
       IN  /\ HasPrefix(t, "${")
           /\ refAt(t, 1).ok
           /\ refAt(t, 1).match.fullMatch = t
           /\ refAt(t, 1).match.name \notin DOMAIN Macros

\* C3: an expansion that involves a well-formed reference to an undefined
\* name (and has no other defect) fails with UndefinedReference quoting that
\* reference
C3_UndefinedAlwaysReported ==
    (pc = "return" /\ UndefinedInvolved /\ AllWellFormed /\ ~Cyclic /\ ExactArgs) =>
        QuotesUndefinedReference(expanded.err)

\* the call is ${f(a)} against a table with f := "$0 > 0"; ArgText is a
IsArgCall ==
    /\ expr \in ArgExprs
    /\ "f" \in DOMAIN Macros
    /\ Macros["f"] = "$0 > 0"

ArgText == SubSeq(expr, 5, Len(expr) - 2)

\* number of "(" minus number of ")" among the first j bytes of a
RECURSIVE Depth(_, _)
Depth(a, j) ==
    IF j = 0 THEN 0
    ELSE Depth(a, j - 1) + (IF CharAt(a, j) = "(" THEN 1
                            ELSE IF CharAt(a, j) = ")" THEN -1 ELSE 0)

\* a is one plain argument: not empty, no white space around it, balanced
\* parentheses, commas only inside parentheses, no quote, bracket or
\* backslash, no "${" and no "$" followed by a digit
PlainArg(a) ==
    /\ a # ""
    /\ TrimSpace(a) = a
    /\ \A j \in 1..Len(a) : Depth(a, j) >= 0
    /\ Depth(a, Len(a)) = 0
    /\ \A j \in 1..Len(a) : CharAt(a, j) = "," => Depth(a, j) > 0
    /\ \A j \in 1..Len(a) : CharAt(a, j) \notin {"'", "\"", "\\", "[", "]"}
    /\ ~Contains(a, "${")
    /\ ~paramPattern(a)

HasFirstRef ==
    /\ Len(findExpressionReferences(expr)) > 0
    /\ findExpressionReferences(expr)[1].name \in DOMAIN Macros

FirstRef == findExpressionReferences(expr)[1]

NoneProvided(name) ==
    "failed to replace parameters in " \o name
        \o ": expression requires parameters but none were provided"

NotEnough(name) ==
    "failed to replace parameters in " \o name
        \o ": not enough arguments provided for parameters"

\* C9 as claimed: a reference that supplies no argument, written ${name} or
\* ${name()}, to a macro whose body has a placeholder fails with "requires
\* parameters but none were provided"
C9_ZeroArgumentsRejected ==
    (/\ pc = "return"
     /\ HasFirstRef
     /\ Placeholders(Macros[FirstRef.name]) # {}
     /\ Len(parseArguments(FirstRef.args)) = 0) =>
        expanded.err = NoneProvided(FirstRef.name)

\* C9 as amended: the first reference of an expression, written with an
\* explicit empty argument list ${name()}, to a macro whose body has a
\* placeholder fails with "requires parameters but none were provided"
C9_EmptyListRejected ==
    (/\ pc = "return"
     /\ HasFirstRef
     /\ Placeholders(Macros[FirstRef.name]) # {}
     /\ FirstRef.args # ""
     /\ Len(parseArguments(FirstRef.args)) = 0) =>
        expanded.err = NoneProvided(FirstRef.name)

C9_Witness ==
    /\ pc = "return"
    /\ HasFirstRef
    /\ FirstRef.fullMatch = "${f()}"
    /\ Placeholders(Macros["f"]) # {}
    /\ expanded.err = NoneProvided("f")

\* some reference involved supplies fewer arguments than its macro asks for
TooFewSomewhere ==
    \E t \in ReachableTexts : \E r \in DeepRefs(t) :
        /\ r.name \in DOMAIN Macros
        /\ Len(parseArguments(r.args)) < Needed(Macros[r.name])

\* every reference involved supplies at least one argument
AllParameterized ==
    \A t \in ReachableTexts : \A r \in DeepRefs(t) :
        Len(parseArguments(r.args)) >= 1

C10_TooFewRejected ==
    (/\ pc = "return"
     /\ HasFirstRef
     /\ Len(parseArguments(FirstRef.args)) >= 1
     /\ Len(parseArguments(FirstRef.args)) < Needed(Macros[FirstRef.name])
     /\ \E k \in Placeholders(Macros[FirstRef.name]) :
            /\ k >= Len(parseArguments(FirstRef.args))
            /\ k < 10) =>
        expanded.err = NotEnough(FirstRef.name)

C10_NoPlaceholderReturned ==
    (pc = "return" /\ AllParameterized /\ expanded.err = "") =>
        ~paramPattern(expanded.result)

C10_OnlyWhenTooFew ==
    (pc = "return" /\ \E name \in DOMAIN Macros : expanded.err = NotEnough(name)) =>
        TooFewSomewhere

\* C10 as claimed: a reference with at least one argument but fewer than the placeholders
\* ask for fails with "not enough arguments provided"; no text with an
\* unresolved placeholder is returned; and the error is raised only when too
\* few arguments were given
C10_NotEnoughArguments ==
    /\ C10_TooFewRejected
    /\ C10_NoPlaceholderReturned
    /\ C10_OnlyWhenTooFew

\* C11: expanding an expression without "${" (the empty one included)
\* returns the input unchanged and without error, whatever the macro table
\* holds; hence expanding a successful output again returns that output
C11_NoReferenceIsIdentity ==
    pc = "return" =>
        /\ ~Contains(expr, "${") =>
               /\ expanded.result = expr
               /\ expanded.err = ""
               /\ expanded.iteration = 0
        /\ expanded.err = "" =>
               LET again == expandExpression(expanded.result, expressions)
               IN  again.result = expanded.result /\ again.err = ""

C11_Witness ==
    /\ pc = "return"
    /\ expr = "$0 {"
    /\ expressions = "a" :> "${a}"
    /\ expanded.result = expr
    /\ expanded.err = ""

\* body with every placeholder $k, k below the number of arguments, replaced
\* by argument k, all at once: what is put in is not looked at again
RECURSIVE Substituted(_, _, _)
Substituted(body, args, j) ==
    IF j > Len(body) THEN ""
    ELSE IF /\ CharAt(body, j) = "$"
            /\ j < Len(body)
            /\ CharAt(body, j + 1) \in Digits
            /\ DigitRun(body, j + 1, 0) < Len(args)
         THEN args[DigitRun(body, j + 1, 0) + 1]
                \o Substituted(body, args, scanName(body, j + 1))
         ELSE CharAt(body, j) \o Substituted(body, args, j + 1)

\* the expression is one reference ${m(a0,...,ak)} to a defined macro, with
\* as many arguments as the body asks for or more, and neither the body nor
\* an argument has a reference of its own
IsSingleCall ==
    /\ HasFirstRef
    /\ FirstRef.fullMatch = expr
    /\ FirstRef.args # ""
    /\ ~Contains(FirstRef.args, "${")
    /\ ~Contains(Macros[FirstRef.name], "${")
    /\ Len(parseArguments(FirstRef.args)) >= 1
    /\ Len(parseArguments(FirstRef.args)) >= Needed(Macros[FirstRef.name])

\* C20: ${m(a0,...,ak)} expands to the body of m with every placeholder $i
\* replaced by the trimmed text of argument ai, in parentheses; text that
\* came from an argument is not scanned for placeholders again
C20_SimultaneousSubstitution ==
    (pc = "return" /\ IsSingleCall) =>
        /\ expanded.err = ""
        /\ expanded.result =
              "(" \o Substituted(Macros[FirstRef.name],
                                parseArguments(FirstRef.args), 1) \o ")"

\* C19: in ${f(s)} with s a quoted string, a parenthesis inside s does not
\* count towards the balance of the argument list: the reference ends at
\* the closing ")}" and expands, with f := "$0 > 0", to (s > 0)
C19_QuotedParenthesesIgnored ==
    (pc = "return" /\ expr \in QuotedExprs) =>
        /\ expanded.err = ""
        /\ expanded.result = "(" \o ArgText \o " > 0)"

\* C21: placeholders are positional for every index: in a call with more
\* than ten arguments $10 is replaced by the eleventh argument, not by the
\* second argument followed by the character 0
C21_PositionalForEveryIndex ==
    (/\ pc = "return"
     /\ expr \in WideExprs
     /\ IsSingleCall
     /\ Needed(Macros[FirstRef.name]) > 10) =>
        /\ expanded.err = ""
        /\ expanded.result =
              "(" \o Substituted(Macros[FirstRef.name],
                                parseArguments(FirstRef.args), 1) \o ")"

\* the expression has exactly one reference, to a defined macro whose body
\* has no reference of its own, and no "${" besides it
IsOnlyRef ==
    /\ HasFirstRef
    /\ Len(findExpressionReferences(expr)) = 1
    /\ ~Contains(Macros[FirstRef.name], "${")
    /\ ~Contains(Replace1(expr, FirstRef.fullMatch, ""), "${")

\* C22: a bare reference ${name} is replaced by the macro body in
\* parentheses, taken as it is: placeholders stay and no arity check is
\* made; the same macro referenced as ${name()} fails with "expression
\* requires parameters but none were provided" when its body has a
\* placeholder
C22_BareReferenceTakesBodyAsIs ==
    (pc = "return" /\ IsOnlyRef) =>
        /\ FirstRef.args = "" =>
               /\ expanded.err = ""
               /\ expanded.result =
                     Replace1(expr, FirstRef.fullMatch,
                              "(" \o Macros[FirstRef.name] \o ")")
        /\ (/\ FirstRef.args # ""
            /\ Len(parseArguments(FirstRef.args)) = 0
            /\ Placeholders(Macros[FirstRef.name]) # {}) =>
               expanded.err = NoneProvided(FirstRef.name)

C22_Witness ==
    /\ pc = "return"
    /\ expr = "${f}"
    /\ IsOnlyRef
    /\ Macros["f"] = "$0 < $1"
    /\ expanded.err = ""
    /\ expanded.result = "($0 < $1)"

\* C23: an expression with a "${" that does not begin a well-formed
\* reference never expands successfully, defined name or not: it fails with
\* UndefinedReference naming the original expression; and every successful
\* expansion is free of "${"
C23_MalformedNeverIgnored ==
    pc = "return" =>
        /\ ~WellFormed(expr) =>
               expanded.err = "undefined reference in expression: " \o expr
        /\ expanded.err = "" => ~Contains(expanded.result, "${")

\* names and bodies of a macro that is added to the table of a call
AddedNames == MacroNames \cup {"z"}

AddedBodies == {"x", "${z}", "${u}", "${f(}"}

\* the name m is not defined by the table and the expression does not
\* reference it, directly or through macro bodies
Unreferenced(m) == m \notin DOMAIN Macros /\ m \notin ReachableNames

\* C27: a macro that the expression never references, added to the table,
\* changes neither whether the expansion succeeds nor the expanded text
C27_UnreferencedMacroIrrelevant ==
    pc = "return" =>
        \A m \in AddedNames : \A b \in AddedBodies :
            Unreferenced(m) =>
                LET with == expandExpression(expr, (m :> b) @@ Macros)
                IN  /\ (with.err = "") <=> (expanded.err = "")
                    /\ with.result = expanded.result

\* bodies of a macro m that could not be expanded itself: one that
\* references itself, one that references an undefined name and one with a
\* malformed reference
BadBodies(m) == {"${" \o m \o "}", "${u}", "${f("}

\* C28: only macros that a rule reaches are looked at: a macro that
\* references itself, references an undefined name or has a malformed
\* reference causes no error and does not change the outcome of expanding
\* a rule that does not reference it, directly or through other macros
C28_UnreachableMacroNotChecked ==
    pc = "return" =>
        \A m \in AddedNames : \A b \in BadBodies(m) :
            Unreferenced(m) =>
                LET with == expandExpression(expr, (m :> b) @@ Macros)
                IN  /\ with.err = expanded.err
                    /\ with.result = expanded.result

\* the expression is one reference ${m(a0,...,ak)} to a defined macro
\* whose body has no reference of its own, with more arguments than the
\* body asks for; the arguments the body asks for have no reference either
IsSurplusCall ==
    /\ HasFirstRef
    /\ FirstRef.fullMatch = expr
    /\ FirstRef.args # ""
    /\ ~Contains(Macros[FirstRef.name], "${")
    /\ Len(parseArguments(FirstRef.args)) > Needed(Macros[FirstRef.name])
    /\ \A k \in 1..Needed(Macros[FirstRef.name]) :
          ~Contains(parseArguments(FirstRef.args)[k], "${")

\* C29: a reference with more arguments than the highest placeholder of the
\* body asks for, a body without placeholders included, expands without
\* error, and the arguments beyond those the body asks for do not appear in
\* the result
C29_SurplusArgumentsDropped ==
    (pc = "return" /\ IsSurplusCall) =>
        /\ expanded.err = ""
        /\ expanded.result =
              "(" \o Substituted(Macros[FirstRef.name],
                                SubSeq(parseArguments(FirstRef.args), 1,
                                       Needed(Macros[FirstRef.name])), 1)
                  \o ")"

(***************************************************************************)
(* Properties of a validation run (Spec).                                  *)
(***************************************************************************)
\* what expanding rule k of the file gives
Expansion(k) == expandExpression(rulesFile[k].Expr, expressions)

RuleIds == 1..Len(rulesFile)

\* ValidateChart returned a ValidationResult
Finished == pc = "done" /\ ~result.isNil

\* how rule k fares on the document, read off the expanded rule
CompileFails(k) == celCompile(rules[k].Expr) # ""

DataFails(k) ==
    /\ ~CompileFails(k)
    /\ \/ celEval(rules[k].Expr, values).err # ""
       \/ celEval(rules[k].Expr, values).out # Bool(TRUE)

InvalidSyntax(k) ==
    "Invalid rule syntax in '" \o rules[k].Desc \o "': "
        \o celCompile(rules[k].Expr)

\* the findings of list that stem from rule k
FindingsOf(list, k) ==
    {j \in 1..Len(list) :
        list[j].Description \in {rules[k].Desc, InvalidSyntax(k)}}

\* C5: when the expansion of some rule fails, ValidateChart returns that
\* error and no result and hands no rule to the CEL compiler; rules are
\* compiled only once every rule is expanded
C5_ExpansionErrorAbortsRun ==
    /\ (\E k \in RuleIds : Expansion(k).err # "") =>
          /\ celCalls = <<>>
          /\ pc = "done" =>
                /\ result.isNil
                /\ \E k \in RuleIds :
                      /\ \A h \in 1..(k - 1) : Expansion(h).err = ""
                      /\ Expansion(k).err # ""
                      /\ err = "failed to expand rule '" \o rulesFile[k].Desc
                                   \o "': " \o Expansion(k).err
    /\ celCalls # <<>> =>
          \A k \in RuleIds :
              /\ Expansion(k).err = ""
              /\ rules[k].Expr = Expansion(k).result

C5_Witness ==
    /\ pc = "done"
    /\ Len(rulesFile) >= 2
    /\ Contains(rulesFile[1].Expr, "${")
    /\ Expansion(1).err = ""
    /\ Expansion(2).err # ""
    /\ err # ""
    /\ result.isNil
    /\ celCalls = <<>>

\* C6: a finding is in warnings exactly when its rule is declared "warning"
\* and failed on the data; data failures of other rules are in errors; a run
\* whose only failures are data failures of warning rules has no errors
C6_SeverityRoutesDataFailures ==
    Finished =>
        /\ \A k \in RuleIds :
              (FindingsOf(result.Warnings, k) # {}) <=>
                  (rules[k].Severity = WarningSeverity /\ DataFails(k))
        /\ \A j \in 1..Len(result.Warnings) :
              \E k \in RuleIds : result.Warnings[j].Description = rules[k].Desc
        /\ \A k \in RuleIds :
              (DataFails(k) /\ rules[k].Severity # WarningSeverity) =>
                  \E j \in 1..Len(result.Errors) :
                      result.Errors[j].Description = rules[k].Desc
        /\ (\A k \in RuleIds :
               (CompileFails(k) \/ DataFails(k)) =>
                   (rules[k].Severity = WarningSeverity /\ DataFails(k)))
              => ~HasErrors(result)

C6_Witness ==
    /\ Finished
    /\ \E k \in RuleIds :
          /\ rules[k].Severity = WarningSeverity
          /\ celEval(rules[k].Expr, values) = [err |-> "", out |-> Bool(FALSE)]
    /\ \E k \in RuleIds : ~CompileFails(k) /\ ~DataFails(k)
    /\ Len(result.Warnings) = 1
    /\ ~HasErrors(result)

\* C7: a rule whose expanded expression does not compile yields exactly one
\* finding, in errors whatever its severity, described as "Invalid rule
\* syntax in '<desc>': <message>", with the expanded text, no path, no value
C7_CompileErrorIsError ==
    Finished =>
        \A k \in RuleIds :
            CompileFails(k) =>
                /\ rules[k].Expr = Expansion(k).result
                /\ FindingsOf(result.Warnings, k) = {}
                /\ Cardinality(FindingsOf(result.Errors, k)) = 1
                /\ \A j \in FindingsOf(result.Errors, k) :
                      result.Errors[j] =
                          Finding(InvalidSyntax(k), rules[k].Expr, NilValue, "")

C7_Witness ==
    /\ Finished
    /\ \E k \in RuleIds :
          /\ CompileFails(k)
          /\ rules[k].Severity = WarningSeverity
          /\ FindingsOf(result.Errors, k) # {}
    /\ result.Warnings = <<>>

\* the rule a finding stems from
RuleOf(f) ==
    CHOOSE k \in RuleIds : f.Description \in {rules[k].Desc, InvalidSyntax(k)}

InRuleOrder(list) ==
    \A j \in 1..Len(list) : \A h \in 1..Len(list) :
        j < h => RuleOf(list[j]) < RuleOf(list[h])

\* C8: errors and warnings list, in rule order, one finding for each rule
\* that did not evaluate to true and none for the others; every rule is
\* evaluated, whatever happened to the rules before it
C8_FindingsInRuleOrder ==
    Finished =>
        /\ celCalls = [k \in RuleIds |-> k]
        /\ \A k \in RuleIds :
              Cardinality(FindingsOf(result.Errors, k))
                + Cardinality(FindingsOf(result.Warnings, k))
                  = IF CompileFails(k) \/ DataFails(k) THEN 1 ELSE 0
        /\ \A j \in 1..Len(result.Errors) :
              \E k \in RuleIds : j \in FindingsOf(result.Errors, k)
        /\ \A j \in 1..Len(result.Warnings) :
              \E k \in RuleIds : j \in FindingsOf(result.Warnings, k)
        /\ InRuleOrder(result.Errors)
        /\ InRuleOrder(result.Warnings)

C8_Witness ==
    /\ Finished
    /\ Len(rules) >= 2
    /\ CompileFails(1)
    /\ DataFails(2)
    /\ rules[2].Severity # WarningSeverity
    /\ Len(result.Errors) = 2
    /\ result.Warnings = <<>>

(***************************************************************************)
(* Properties of the validate command (SpecChart).                         *)
(***************************************************************************)
ServiceDocument == "service" :> Map("type" :> Str("ClusterIP"))

ServiceRule(e) == Rule(e, "service port is required", "")

\* the run validated exactly the given rules over the given document
Validated(ruleList, document) ==
    /\ Finished
    /\ rulesFile = ruleList
    /\ values = document

Findings == {result.Errors[j] : j \in 1..Len(result.Errors)}
               \cup {result.Warnings[j] : j \in 1..Len(result.Warnings)}

\* path and value of f are what the diagnostics derive from the text e
DerivedFrom(f, e) ==
    \/ celCompile(e) # "" /\ f.Path = "" /\ f.Value = NilValue
    \/ /\ celCompile(e) = ""
       /\ celEval(e, values).err # ""
       /\ f.Path = extractPath(celEval(e, values).err)
       /\ f.Value = NilValue
    \/ /\ celCompile(e) = ""
       /\ celEval(e, values).err = ""
       /\ f.Path = extractValueFromValues(values, e).path
       /\ f.Value = extractValueFromValues(values, e).value

\* C13: every Finding carries the fully expanded text of its rule, without
\* "${", and its path and value are derived from that text; the inRange
\* rule over {port:70000} gives the Finding with expression
\* (values.port >= 1 && values.port <= 65535), path "port" and value 70000
C13_DiagnosticsOnExpandedRule ==
    /\ Finished =>
          \A f \in Findings :
              /\ ~Contains(f.Expression, "${")
              /\ \E k \in 1..Len(rulesFile) :
                    /\ Expansion(k).err = ""
                    /\ f.Expression = Expansion(k).result
                    /\ DerivedFrom(f, Expansion(k).result)
    /\ (/\ Finished
        /\ values = "port" :> Num(70000)
        /\ expressions = "inRange" :> "$0 >= $1 && $0 <= $2"
        /\ \E k \in 1..Len(rulesFile) :
              rulesFile[k].Expr = "${inRange(values.port,1,65535)}") =>
          \E f \in Findings :
              /\ f.Expression = "(values.port >= 1 && values.port <= 65535)"
              /\ f.Path = "port"
              /\ f.Value = Num(70000)

C13_Witness ==
    /\ Finished
    /\ values = "port" :> Num(70000)
    /\ Len(rulesFile) = 2
    /\ rulesFile[1] = Rule("${inRange(values.port,1,65535)}", "port is in range", "")
    /\ result.Errors =
          <<Finding("port is in range",
                    "(values.port >= 1 && values.port <= 65535)",
                    Num(70000), "port")>>

\* the report of the run reached the user: as the text of the result on
\* stderr, or as the printed document of the selected format
FullReport ==
    \/ stderr = Error(result)
    \/ \E j \in 1..Len(stdout) :
          /\ stdout[j].format = outputFormat
          /\ stdout[j].output = ValidationOutput(result)

\* C14: when the outcome has at least one error the command exits with a
\* non-zero status and the full report, in every output format; with no
\* error it exits with status 0
C14_ErrorsGiveNegativeSignal ==
    (pc = "exit" /\ ~result.isNil) =>
        /\ HasErrors(result) => (exitCode # 0 /\ FullReport)
        /\ ~HasErrors(result) => exitCode = 0

(***************************************************************************)
(* Frame of a validation run (Spec): rulesFile holds the rules as they     *)
(* were before the run.                                                    *)
(***************************************************************************)
\* C15 as claimed: no step of a run changes the rules, the macro table or
\* the document
C15_InputsUnchanged ==
    [][rules' = rules /\ expressions' = expressions /\ values' = values]_vars

\* rule k is as written but for its expression, which may be expanded
SameButExpr(k) ==
    /\ rules[k].Desc = rulesFile[k].Desc
    /\ rules[k].Severity = rulesFile[k].Severity
    /\ rules[k].Expr \in {rulesFile[k].Expr, Expansion(k).result}

\* C15: a run changes neither the macro table nor the document nor any
\* rule's description or severity; it overwrites the expression of every
\* rule up to the first that fails to expand by its expansion and leaves
\* the expressions of the later rules as written
C15_OnlyExpressionsRewritten ==
    /\ [][expressions' = expressions /\ values' = values]_vars
    /\ [](/\ Len(rules) = Len(rulesFile)
          /\ \A k \in RuleIds : SameButExpr(k)
          /\ pc = "done" =>
                \A k \in RuleIds :
                    rules[k].Expr =
                        IF \A h \in 1..k : Expansion(h).err = ""
                        THEN Expansion(k).result
                        ELSE rulesFile[k].Expr)

C15_Witness ==
    /\ pc = "done"
    /\ err # ""
    /\ Len(rules) = 2
    /\ rules[1].Expr # rulesFile[1].Expr
    /\ rules[2].Expr = rulesFile[2].Expr
    /\ Expansion(2).err # ""

(***************************************************************************)
(* Duplicate macros across rule files (SpecChart).                         *)
(***************************************************************************)
\* the macro names that file j defines and an earlier file defined already
DefinedAgain(j) ==
    DOMAIN rulesFiles[j].Expressions
        \cap UNION {DOMAIN rulesFiles[h].Expressions : h \in 1..(j - 1)}

\* file j is the first file that defines a macro again
FirstOffender(j) ==
    /\ DefinedAgain(j) # {}
    /\ \A h \in 1..(j - 1) : DefinedAgain(h) = {}

\* the message of the loader for macro k defined again by file j
DuplicateMessage(k, j) ==
    LET h == CHOOSE g \in 1..(j - 1) : k \in DOMAIN rulesFiles[g].Expressions
    IN  "duplicate named expression '" \o k \o "' found in "
            \o rulesFiles[j].path \o " (already defined as '"
            \o rulesFiles[h].Expressions[k] \o "')"

\* C16: when a later rule file defines a macro that an earlier file
\* defined, loading fails with the error that names such a macro and the
\* first file that does so, no merged RuleSet is returned, and no rule is
\* expanded or evaluated; the command ends with that error
C16_DuplicateMacroIsFatal ==
    \A j \in 1..Len(rulesFiles) :
        FirstOffender(j) =>
            /\ pc \notin {"loaded", "prepare", "validate"}
            /\ celCalls = <<>>
            /\ result.isNil
            /\ pc \in {"done", "exit"} =>
                  /\ \E k \in DefinedAgain(j) :
                        err = "failed to load rules: " \o DuplicateMessage(k, j)
                  /\ rules = <<>>
                  /\ expressions = NilMap
            /\ pc = "exit" => (exitCode = 1 /\ stderr = err /\ stdout = <<>>)

C16_Witness ==
    /\ pc = "exit"
    /\ Len(rulesFiles) = 2
    /\ rulesFiles[1] # rulesFiles[2]
    /\ Len(rulesFiles[1].Rules) > 0
    /\ FirstOffender(2)
    /\ err = "failed to load rules: " \o DuplicateMessage("inRange", 2)
    /\ exitCode = 1

(***************************************************************************)
(* The merge of values files (SpecValues).                                 *)
(***************************************************************************)
\* r is the deep merge of a and b with b winning: a key of one side only
\* keeps its value, two mappings at a key merge key-wise, and in every
\* other case the value of b stands
RECURSIVE IsDeepMerge(_, _, _)
IsDeepMerge(r, a, b) ==
    /\ DOMAIN r = DOMAIN a \cup DOMAIN b
    /\ \A k \in DOMAIN r :
          IF k \notin DOMAIN b THEN r[k] = a[k]
          ELSE IF k \notin DOMAIN a THEN r[k] = b[k]
          ELSE IF a[k].kind = "map" /\ b[k].kind = "map"
               THEN r[k].kind = "map" /\ IsDeepMerge(r[k].m, a[k].m, b[k].m)
               ELSE r[k] = b[k]

\* C17: LoadAndMergeValues starts from the empty mapping and takes the
\* files from left to right, each step giving the deep merge of what was
\* accumulated with the next file, the later file winning
C17_LastFileWinsDeepMerge ==
    /\ []((pc = "values" /\ i = 1) => values = <<>>)
    /\ []((pc = "rules") => i = 1)
    /\ [][(pc = "values" /\ i <= Len(valuesFiles)) =>
              /\ IsDeepMerge(values', values, valuesFiles[i].values)
              /\ IF i = Len(valuesFiles) THEN pc' = "rules"
                                         ELSE pc' = "values" /\ i' = i + 1]_vars

C17_Witness ==
    /\ pc = "rules"
    /\ Len(valuesFiles) = 2
    /\ valuesFiles[1].values = "service" :> Map("type" :> Map("port" :> Num(1)))
    /\ valuesFiles[2].values = "service" :> Map("type" :> Map("replicas" :> Num(2)))
    /\ values =
          "service" :> Map("type" :> Map(("port" :> Num(1)) @@ ("replicas" :> Num(2))))

(***************************************************************************)
(* The text of a ValidationResult (SpecRender), line by line.              *)
(***************************************************************************)
\* the lines of one finding
FindingLines(f, symbol) ==
    <<symbol \o " " \o f.Description, "   Rule: " \o f.Expression>>
      \o (IF f.Path # "" THEN <<"   Path: " \o f.Path>> ELSE <<>>)
      \o <<"   Current value: "
             \o (IF f.Value = NilValue THEN "<nil>" ELSE Format(f.Value))>>

\* the lines of the findings from finding j on, one empty line between two
RECURSIVE ListLines(_, _, _)
ListLines(list, symbol, j) ==
    IF j > Len(list) THEN <<>>
    ELSE FindingLines(list[j], symbol)
           \o (IF j < Len(list) THEN <<"">> ELSE <<>>)
           \o ListLines(list, symbol, j + 1)

\* a block: nothing for an empty list, else header, empty line, findings
BlockLines(list, word, symbol) ==
    IF Len(list) = 0 THEN <<>>
    ELSE <<"Found " \o Itoa(Len(list)) \o " " \o word \o "(s):", "">>
           \o ListLines(list, symbol, 1)

ReportLines(vr) ==
    BlockLines(vr.Errors, "error", ErrorSymbol)
      \o (IF Len(vr.Errors) > 0 /\ Len(vr.Warnings) > 0 THEN <<"">> ELSE <<>>)
      \o BlockLines(vr.Warnings, "warning", WarningSymbol)

Occurring == {k \in 1..3 : Contains(err, PathPatterns[k])}

\* the first pattern of the list that occurs in the message
FirstPattern == PathPatterns[CHOOSE k \in Occurring : \A j \in Occurring : k <= j]

\* the message after the first occurrence of the first pattern
AfterPattern ==
    SubSeq(err, Index(err, FirstPattern) + Len(FirstPattern), Len(err))

\* s up to, and not including, its first space or quote character
RECURSIVE UpToSpaceOrQuote(_)
UpToSpaceOrQuote(s) ==
    IF s = "" \/ CharAt(s, 1) \in {" ", "'", "\""} THEN ""
    ELSE CharAt(s, 1) \o UpToSpaceOrQuote(SubSeq(s, 2, Len(s)))

\* C24: extractPath returns the text after the first occurrence of the
\* first pattern of the list that occurs anywhere in the message, up to and
\* not including the next space or quote character, and the empty path
\* when no pattern occurs
C24_PathAfterFirstPattern ==
    pc = "return" =>
        extracted.path =
            IF Occurring = {} THEN "" ELSE UpToSpaceOrQuote(AfterPattern)

(***************************************************************************)
(* Properties of a direct call of extractValueFromValues (SpecExtract).    *)
(***************************************************************************)
\* s up to, and not including, its first space
UpToSpace(s) == IF Contains(s, " ") THEN SubSeq(s, 1, Index(s, " ") - 1) ELSE s

\* the expression after its first "values."
AfterValues == SubSeq(expr, Index(expr, "values.") + Len("values."), Len(expr))

\* the candidate path as claimed: up to the next space, parentheses at the
\* two ends stripped
Candidate == Trim(UpToSpace(AfterValues), {"(", ")"})

\* the value the document holds at the first k segments of the path: nil as
\* soon as a segment is missing or is looked up in something that is no
\* mapping
RECURSIVE ValueAt(_, _)
ValueAt(segments, k) ==
    IF k = 1 THEN Lookup(values, segments[1])
    ELSE LET parent == ValueAt(segments, k - 1)
         IN  IF parent.kind = "map" THEN Lookup(parent.m, segments[k])
             ELSE NilValue

\* where the walk over the segments stops: at the first segment before the
\* last whose value is no mapping, else at the last
StopAt(segments) ==
    LET n == Len(segments)
        stops == {k \in 1..n : k = n \/ ValueAt(segments, k).kind # "map"}
    IN  CHOOSE k \in stops : \A j \in stops : k <= j

\* the value and the path of the walk over the path p
Walked(p) ==
    LET segments == Split(p, ".")
        k == StopAt(segments)
    IN  [value |-> ValueAt(segments, k),
         path |-> Join(SubSeq(segments, 1, k), ".")]

\* C25: extractValueFromValues returns no value and the empty path when
\* the expression has no "values."; otherwise it walks the document along
\* the text after the first "values." up to the next space, parentheses at
\* its ends stripped, and returns the value at the full path with the full
\* path, or the value (nil when missing) of the first intermediate segment
\* that is no mapping with the path consumed so far
C25_WalkAlongFirstCandidate ==
    pc = "return" =>
        extracted = IF ~Contains(expr, "values.") THEN NotExtracted
                    ELSE Walked(Candidate)

(***************************************************************************)
(* Severity of a rule in a validation run (Spec).                          *)
(***************************************************************************)
\* C30: a data failure goes to warnings only when the severity of its rule
\* is exactly "warning"; with any other severity (unset, "error",
\* "Warning", "WARNING" or an unknown word) it goes to errors, and the
\* result then has errors
C30_SeverityMatchIsExact ==
    Finished =>
        \A k \in RuleIds :
            DataFails(k) =>
                IF rules[k].Severity = "warning"
                THEN /\ FindingsOf(result.Warnings, k) # {}
                     /\ FindingsOf(result.Errors, k) = {}
                ELSE /\ FindingsOf(result.Errors, k) # {}
                     /\ FindingsOf(result.Warnings, k) = {}
                     /\ HasErrors(result)

C30_Witness ==
    /\ Finished
    /\ Len(rules) = 2
    /\ rules[1].Severity = "Warning"
    /\ rules[2].Severity = "WARNING"
    /\ DataFails(1)
    /\ DataFails(2)
    /\ Len(result.Errors) = 2
    /\ result.Warnings = <<>>

(***************************************************************************)
(* Properties of the rule files of the validate command (SpecChart).       *)
(***************************************************************************)
\* the rules of the first n rule files, one after the other
RECURSIVE ConcatRules(_)
ConcatRules(n) ==
    IF n = 0 THEN <<>> ELSE ConcatRules(n - 1) \o rulesFiles[n].Rules

\* the macros of the first n rule files in one table
RECURSIVE UnionTable(_)
UnionTable(n) ==
    IF n = 0 THEN <<>> ELSE rulesFiles[n].Expressions @@ UnionTable(n - 1)

\* no macro name is defined by two of the rule files
NoDuplicates ==
    \A j, k \in 1..Len(rulesFiles) :
        j < k => DOMAIN rulesFiles[j].Expressions
                    \cap DOMAIN rulesFiles[k].Expressions = {}

\* the findings of the rules from rule k on, added to res
RECURSIVE ValidateFrom(_, _, _, _)
ValidateFrom(res, ruleList, table, k) ==
    IF k > Len(ruleList) THEN res
    ELSE ValidateFrom(
             validateRule(res,
                 [ruleList[k] EXCEPT
                     !.Expr = expandExpression(ruleList[k].Expr, table).result],
                 values),
             ruleList, table, k + 1)

\* what the run gives for one file that holds the rules ruleList and the
\* macros table: no result when a rule fails to expand
OneFileResult(ruleList, table) ==
    IF \E k \in 1..Len(ruleList) :
           expandExpression(ruleList[k].Expr, table).err # ""
    THEN NilResult
    ELSE ValidateFrom(EmptyResult, ruleList, table, 1)

\* C26: the rules of several rule files are merged in file order and their
\* macros into one table, so that a rule of any file can use a macro of any
\* other file, a later one too, and the run gives what it gives for one
\* file that holds all the rules and all the macros
C26_RuleFilesAsOneFile ==
    (NoDuplicates /\ pc \in {"loaded", "prepare", "validate", "done", "exit"}) =>
        /\ rulesFile = ConcatRules(Len(rulesFiles))
        /\ expressions = UnionTable(Len(rulesFiles))
        /\ pc \in {"done", "exit"} =>
               /\ result = OneFileResult(rulesFile, expressions)
               /\ err = "" <=> ~result.isNil

C26_Witness ==
    /\ pc = "done"
    /\ Len(rulesFiles) = 2
    /\ rulesFiles[1].Rules =
          <<Rule("${inRange(values.port,1,65535)}", "port is in range", "")>>
    /\ rulesFiles[1].Expressions = <<>>
    /\ rulesFiles[2].Expressions = "inRange" :> inRangeBody
    /\ values = "port" :> Num(70000)
    /\ Len(result.Errors) = 1
    /\ result.Errors[1].Expression = "(values.port >= 1 && values.port <= 65535)"
====
